---- MODULE Spec2Model ----
(***************************************************************************)
(* TechSuppliers (src/app.py): registration and listing of suppliers       *)
(* (fornecedores) and clients (clientes), session login for clients, and a *)
(* per-address rate limiter in front of the five JSON/POST endpoints.      *)
(*                                                                         *)
(* src/app.py holds two iterations of the application one after the other: *)
(* lines 1-531 (validators for CPF/CNPJ/phone/password, CHECK constraints) *)
(* and lines 531-963 (the "simplified" iteration: fewer validations, no    *)
(* CHECK constraints, get_db_connection returning None).  The state        *)
(* variable `variant` says which of the two is running.                    *)
(*                                                                         *)
(* Text is modelled as a sequence of one-character strings, so that the    *)
(* sanitizer and the validators are computed character by character as the *)
(* code computes them.                                                     *)
(***************************************************************************)
EXTENDS Integers, Sequences, FiniteSets, TLC

(***************************************************************************)
(* Characters                                                              *)
(***************************************************************************)
Digits == {"0", "1", "2", "3", "4", "5", "6", "7", "8", "9"}

Upper == {"A", "B", "C", "D", "E", "F", "G", "H", "I", "J", "K", "L", "M",
          "N", "O", "P", "Q", "R", "S", "T", "U", "V", "W", "X", "Y", "Z"}

Lower == {"a", "b", "c", "d", "e", "f", "g", "h", "i", "j", "k", "l", "m",
          "n", "o", "p", "q", "r", "s", "t", "u", "v", "w", "x", "y", "z"}

Whitespace == {" ", "\t", "\n", "\r"}

\* Python None, a value no text equals (texts hold one-character strings only)
NoneValue == <<"None">>

DigitVal(c) ==
    CASE c = "0" -> 0 [] c = "1" -> 1 [] c = "2" -> 2 [] c = "3" -> 3
      [] c = "4" -> 4 [] c = "5" -> 5 [] c = "6" -> 6 [] c = "7" -> 7
      [] c = "8" -> 8 [] c = "9" -> 9

\* re.sub(r'[^\d]', '', s)
OnlyDigits(s) == SelectSeq(s, LAMBDA c : c \in Digits)

RECURSIVE Concat(_)
Concat(ss) == IF ss = << >> THEN << >> ELSE Head(ss) \o Concat(Tail(ss))

\* str.strip()
RECURSIVE LStrip(_)
LStrip(s) ==
    IF s # << >> /\ Head(s) \in Whitespace THEN LStrip(Tail(s)) ELSE s

RECURSIVE RStrip(_)
RStrip(s) ==
    IF s # << >> /\ s[Len(s)] \in Whitespace
    THEN RStrip(SubSeq(s, 1, Len(s) - 1))
    ELSE s

Strip(s) == RStrip(LStrip(s))

\* html.escape(s) with quote=True
EscapeChar(c) ==
    CASE c = "&"  -> <<"&", "a", "m", "p", ";">>
      [] c = "<"  -> <<"&", "l", "t", ";">>
      [] c = ">"  -> <<"&", "g", "t", ";">>
      [] c = "\"" -> <<"&", "q", "u", "o", "t", ";">>
      [] c = "'"  -> <<"&", "#", "x", "2", "7", ";">>
      [] OTHER    -> <<c>>

HtmlEscape(s) == Concat([i \in 1..Len(s) |-> EscapeChar(s[i])])

\* re.sub(r'[;\"\']', '', texto)
StripSqlChars(s) == SelectSeq(s, LAMBDA c : c \notin {";", "\"", "'"})

(***************************************************************************)
(* Sanitizer and validators                                                *)
(***************************************************************************)
\* sanitizar_input of the first iteration (lines 66-73)
sanitizar_input_v1(texto) ==
    IF texto = NoneValue THEN << >>
    ELSE StripSqlChars(HtmlEscape(Strip(texto)))

\* sanitizar_input of the second iteration (lines 583-589): no re.sub
sanitizar_input_v2(texto) ==
    IF texto = NoneValue THEN << >>
    ELSE HtmlEscape(Strip(texto))

sanitizar_input(v, texto) ==
    IF v = 1 THEN sanitizar_input_v1(texto) ELSE sanitizar_input_v2(texto)

AllIn(s, lo, hi, class) == \A k \in lo..hi : s[k] \in class

EmailLocalChars == Upper \cup Lower \cup Digits \cup {".", "_", "%", "+", "-"}
EmailDomainChars == Upper \cup Lower \cup Digits \cup {".", "-"}

\* re.match(r'^[a-zA-Z0-9._%+-]+@[a-zA-Z0-9.-]+\.[a-zA-Z]{2,}$', email):
\* some position a holds "@" and some later position d holds "." such that
\* the three parts are non-empty (the last of length >= 2) and in their class.
validar_email(email) ==
    \E a \in 1..Len(email) : \E d \in 1..Len(email) :
        /\ a >= 2
        /\ email[a] = "@"
        /\ d >= a + 2
        /\ email[d] = "."
        /\ Len(email) - d >= 2
        /\ AllIn(email, 1, a - 1, EmailLocalChars)
        /\ AllIn(email, a + 1, d - 1, EmailDomainChars)
        /\ AllIn(email, d + 1, Len(email), Upper \cup Lower)

RECURSIVE SumSeq(_)
SumSeq(s) == IF s = << >> THEN 0 ELSE Head(s) + SumSeq(Tail(s))

\* digit value of the 0-based position j, as int(cpf[j])
At0(s, j) == DigitVal(s[j + 1])

AllSame(s) == \A k \in 1..Len(s) : s[k] = s[1]

\* for comparison: the check digit without the step that turns 10 and 11 into 0
CpfDigitoRaw(cpf, i) ==
    LET soma == SumSeq([k \in 1..i |-> At0(cpf, k - 1) * ((i + 1) - (k - 1))])
    IN  11 - (soma % 11)

\* the check digit the loop body of validar_cpf computes for position i (0-based)
CpfDigito(cpf, i) ==
    LET soma == SumSeq([k \in 1..i |-> At0(cpf, k - 1) * ((i + 1) - (k - 1))])
        digito == 11 - (soma % 11)
    IN  IF digito > 9 THEN 0 ELSE digito

validar_cpf(cpf0) ==
    LET cpf == OnlyDigits(cpf0)
    IN  IF Len(cpf) # 11 \/ AllSame(cpf) THEN FALSE
        ELSE \A i \in 9..10 : CpfDigito(cpf, i) = At0(cpf, i)

\* the weight validar_cnpj holds when it reaches 0-based position j on its way
\* down from i-1: it starts at 2 (i = 12) or 3 (i = 13), adds one per step and
\* goes back to 2 after 9.
RECURSIVE CnpjPeso(_, _)
CnpjPeso(i, j) ==
    IF j = i - 1 THEN (IF i = 12 THEN 2 ELSE 3)
    ELSE LET prev == CnpjPeso(i, j + 1)
         IN  IF prev < 9 THEN prev + 1 ELSE 2

CnpjDigito(cnpj, i) ==
    LET soma == SumSeq([k \in 1..i |-> At0(cnpj, k - 1) * CnpjPeso(i, k - 1)])
        digito == 11 - (soma % 11)
    IN  IF digito > 9 THEN 0 ELSE digito

validar_cnpj(cnpj0) ==
    LET cnpj == OnlyDigits(cnpj0)
    IN  IF Len(cnpj) # 14 \/ AllSame(cnpj) THEN FALSE
        ELSE \A i \in 12..13 : CnpjDigito(cnpj, i) = At0(cnpj, i)

\* validar_telefone of the first iteration (lines 114-117)
validar_telefone_v1(telefone0) ==
    LET telefone == OnlyDigits(telefone0)
    IN  Len(telefone) \in {10, 11} /\ telefone[1] \in (Digits \ {"0"})

\* validar_telefone of the second iteration (lines 596-599)
validar_telefone_v2(telefone0) ==
    Len(OnlyDigits(telefone0)) \in {10, 11}

validar_telefone(v, telefone) ==
    IF v = 1 THEN validar_telefone_v1(telefone) ELSE validar_telefone_v2(telefone)

HasChar(s, class) == \E k \in 1..Len(s) : s[k] \in class

validar_senha(senha) ==
    /\ Len(senha) >= 8
    /\ HasChar(senha, Upper)
    /\ HasChar(senha, Lower)
    /\ HasChar(senha, Digits)
    /\ \E k \in 1..Len(senha) : senha[k] \notin (Upper \cup Lower \cup Digits)


\* str.lower() on the letters of the model's alphabet
UpperSeq == <<"A", "B", "C", "D", "E", "F", "G", "H", "I", "J", "K", "L", "M",
              "N", "O", "P", "Q", "R", "S", "T", "U", "V", "W", "X", "Y", "Z">>
LowerSeq == <<"a", "b", "c", "d", "e", "f", "g", "h", "i", "j", "k", "l", "m",
              "n", "o", "p", "q", "r", "s", "t", "u", "v", "w", "x", "y", "z">>

LowerChar(c) ==
    IF c \in Upper
    THEN LowerSeq[CHOOSE k \in 1..26 : UpperSeq[k] = c]
    ELSE c

ToLower(s) == [k \in 1..Len(s) |-> LowerChar(s[k])]

\* str.isdigit() on the model's alphabet
IsDigitText(s) == s # << >> /\ \A k \in 1..Len(s) : s[k] \in Digits

RECURSIVE DigitsValue(_)
DigitsValue(s) ==
    IF s = << >> THEN 0
    ELSE 10 * DigitsValue(SubSeq(s, 1, Len(s) - 1)) + DigitVal(s[Len(s)])

\* what int(s) and PostgreSQL's integer input accept on the model's alphabet:
\* surrounding whitespace, an optional sign, then digits
IntBody(s) ==
    LET t == Strip(s)
    IN  IF t # << >> /\ Head(t) \in {"+", "-"} THEN Tail(t) ELSE t

IsIntText(s) == IsDigitText(IntBody(s))

IntOf(s) ==
    LET t == Strip(s)
    IN  IF t # << >> /\ Head(t) = "-"
        THEN 0 - DigitsValue(IntBody(s))
        ELSE DigitsValue(IntBody(s))

(***************************************************************************)
(* Passwords: werkzeug's generate_password_hash / check_password_hash.     *)
(* The hash is a term over the salt and the plaintext that only            *)
(* check_password_hash opens; it never equals a text.                      *)
(***************************************************************************)
Salts == {"salt1"}

generate_password_hash(salt, senha) == <<"pbkdf2:sha256", salt, senha>>

\* for comparison: a verification that accepts any password
check_password_hash_any(pwhash, senha) == Len(pwhash) = 3

check_password_hash(pwhash, senha) ==
    pwhash = generate_password_hash(pwhash[2], senha)

(***************************************************************************)
(* The two tables (criar_tabelas / criar_bancos).  A table is the sequence *)
(* of its rows in insertion order.  A text column that is NULL holds       *)
(* NoneValue; the INTEGER column idade holds the set of its value, empty   *)
(* for NULL.  data_criacao is left out: no handler reads it.               *)
(***************************************************************************)
GeneroCheck == {<<"M">>, <<"F">>, <<"O">>}

IdadeMin == 18
IdadeMax == 120

\* CHECK(idade >= 18 AND idade <= 120), which NULL passes
IdadeCheckOk(idade) == \A n \in idade : n >= IdadeMin /\ n <= IdadeMax

\* The value the INTEGER column idade of clientes takes from the parameter the
\* handler passes: the first iteration passes the int it parsed (here the set
\* holding it), the second passes the form's text, which PostgreSQL parses.
ClienteIdadeFits(v, x) == v = 1 \/ IsIntText(x)

ClienteIdadeStored(v, x) == IF v = 1 THEN x ELSE {IntOf(x)}

\* INSERT INTO clientes: "data_error" when a value does not fit its column's
\* type (raised before the row is formed), then the row's constraints.
ClienteInsertResult(v, table, r) ==
    IF \/ ~ClienteIdadeFits(v, r.idade)
       \/ Len(r.genero) > 1
       \/ Len(r.nome) > 100 \/ Len(r.email) > 100 \/ Len(r.telefone) > 15
       \/ Len(r.endereco) > 200 \/ Len(r.cpf) > 14
    THEN "data_error"
    ELSE IF v = 1 /\ ~(IdadeCheckOk(r.idade) /\ r.genero \in GeneroCheck)
    THEN "check_violation"
    ELSE IF \E k \in 1..Len(table) :
                table[k].email = r.email \/ table[k].cpf = r.cpf
    THEN "unique_violation"
    ELSE "ok"

\* the row INSERT INTO clientes stores, with the id the sequence gave it
ClienteRow(v, id, r) ==
    [id |-> id, nome |-> r.nome, idade |-> ClienteIdadeStored(v, r.idade),
     email |-> r.email, telefone |-> r.telefone, endereco |-> r.endereco,
     genero |-> r.genero, cpf |-> r.cpf, senha |-> r.senha]

\* INSERT INTO fornecedores
FornecedorInsertResult(v, table, r) ==
    IF \/ Len(r.nome) > 100 \/ Len(r.razao) > 200 \/ Len(r.cpfcnpj) > 18
       \/ Len(r.telefone) > 15 \/ Len(r.email) > 100 \/ Len(r.endereco) > 200
       \/ (r.site # NoneValue /\ Len(r.site) > 100)
       \/ Len(r.servico) > 100 \/ Len(r.tempo) > 50 \/ Len(r.contrato) > 50
       \/ Len(r.responsavel) > 100
    THEN "data_error"
    ELSE IF v = 1 /\ ~IdadeCheckOk(r.idade)
    THEN "check_violation"
    ELSE IF \E k \in 1..Len(table) : table[k].cpfcnpj = r.cpfcnpj
    THEN "unique_violation"
    ELSE "ok"

FornecedorRow(id, r) ==
    [id |-> id, nome |-> r.nome, razao |-> r.razao, cpfcnpj |-> r.cpfcnpj,
     idade |-> r.idade, telefone |-> r.telefone, email |-> r.email,
     endereco |-> r.endereco, site |-> r.site, servico |-> r.servico,
     tempo |-> r.tempo, contrato |-> r.contrato,
     responsavel |-> r.responsavel, obs |-> r.obs]

\* SELECT * FROM clientes WHERE email = %s, fetchone(): the set holds the row
\* found, or nothing
ClienteByEmail(table, email) ==
    {table[k] : k \in {j \in 1..Len(table) : table[j].email = email}}

\* SELECT id FROM clientes WHERE email = %s OR cpf = %s, fetchone()
ClienteExists(table, email, cpf) ==
    \E k \in 1..Len(table) : table[k].email = email \/ table[k].cpf = cpf

\* SELECT id FROM fornecedores WHERE cpfcnpj = %s, fetchone()
FornecedorExists(table, cpfcnpj) ==
    \E k \in 1..Len(table) : table[k].cpfcnpj = cpfcnpj

(***************************************************************************)
(* Handler bodies, as functions of the form and of what they read.  A      *)
(* result is [status, msg]; status 200 is Flask's default for a jsonify    *)
(* returned without a code.  Messages are the code's, without accents.     *)
(***************************************************************************)
Result(status, msg) == [status |-> status, msg |-> msg]

Passed == Result(0, "")

MsgInterno == "Erro interno do servidor."
MsgConexao == "Erro de conexao com o banco."

\* what a handler answers when get_db_connection fails: psycopg2.connect
\* raises in the first iteration (caught by the handler's except Exception),
\* get_db_connection returns None in the second
ConnectFailed(v) ==
    IF v = 1 THEN Result(500, MsgInterno) ELSE Result(500, MsgConexao)

\* dict.update: the session keys a handler assigns, the others kept
DictUpdate(d, u) ==
    [k \in (DOMAIN d) \cup (DOMAIN u) |-> IF k \in DOMAIN u THEN u[k] ELSE d[k]]

EmptyDict == [k \in {} |-> 0]

\* the session keys login_cliente and cadastrar_cliente assign from a row
SessionOf(v, row) ==
    IF v = 1
    THEN [cliente_id |-> row.id, cliente_nome |-> row.nome,
          cliente_email |-> row.email, logged_in |-> TRUE]
    ELSE [cliente_id |-> row.id, cliente_nome |-> row.nome, logged_in |-> TRUE]

\* genero_map.get(genero.lower().strip(), None) (lines 414-415)
GeneroMap(genero) ==
    LET g == Strip(ToLower(genero))
    IN  CASE g \in {<<"m">>, <<"m", "a", "s", "c", "u", "l", "i", "n", "o">>} -> <<"M">>
          [] g \in {<<"f">>, <<"f", "e", "m", "i", "n", "i", "n", "o">>} -> <<"F">>
          [] g \in {<<"o">>, <<"o", "u", "t", "r", "o">>} -> <<"O">>
          [] OTHER -> NoneValue

\* cadastrar_cliente up to the database: the form's fields as the handler
\* holds them (lines 378-386 and 820-828; the second iteration leaves idade
\* unsanitized)
ClienteDados(v, form) ==
    [nome |-> sanitizar_input(v, form.nome),
     idade |-> IF v = 1 THEN sanitizar_input(v, form.idade) ELSE form.idade,
     email |-> sanitizar_input(v, form.email),
     telefone |-> sanitizar_input(v, form.telefone),
     endereco |-> sanitizar_input(v, form.endereco),
     genero |-> sanitizar_input(v, form.genero),
     cpf |-> sanitizar_input(v, form.cpf),
     senha |-> form.senha,
     confirmar_senha |-> form.confirmarSenha]

\* the checks of cadastrar_cliente in the code's order (lines 388-418 and
\* 831-841): the first that fails gives the answer, Passed when none does
ClienteChecks(v, form) ==
    LET d == ClienteDados(v, form)
    IN  IF \E f \in {"nome", "idade", "email", "telefone", "endereco",
                     "genero", "cpf", "senha"} : d[f] = << >>
        THEN Result(400, "Todos os campos sao obrigatorios.")
        ELSE IF d.senha # d.confirmar_senha
        THEN Result(400, "As senhas nao coincidem.")
        ELSE IF v = 1 /\ ~validar_senha(d.senha)
        THEN Result(400, "Senha fraca.")
        ELSE IF v = 2 /\ Len(d.senha) < 6
        THEN Result(400, "Senha deve ter pelo menos 6 caracteres.")
        ELSE IF ~validar_email(d.email)
        THEN Result(400, "Email invalido.")
        ELSE IF v = 2 THEN Passed
        ELSE IF ~validar_telefone(v, d.telefone)
        THEN Result(400, "Telefone invalido.")
        ELSE IF ~validar_cpf(OnlyDigits(d.cpf))
        THEN Result(400, "CPF invalido.")
        ELSE IF ~IsIntText(d.idade)
        THEN Result(400, "Idade deve ser um numero valido.")
        ELSE IF IntOf(d.idade) < 18 \/ IntOf(d.idade) > 120
        THEN Result(400, "Idade deve estar entre 18 e 120 anos.")
        ELSE IF GeneroMap(d.genero) = NoneValue
        THEN Result(400, "Genero invalido.")
        ELSE Passed

\* the parameters of INSERT INTO clientes (lines 432 and 862)
ClienteParams(v, form, salt) ==
    LET d == ClienteDados(v, form)
    IN  [nome |-> d.nome,
         idade |-> IF v = 1 THEN {IntOf(d.idade)} ELSE d.idade,
         email |-> d.email, telefone |-> d.telefone, endereco |-> d.endereco,
         genero |-> IF v = 1 THEN GeneroMap(d.genero) ELSE d.genero,
         cpf |-> d.cpf,
         senha |-> generate_password_hash(salt, d.senha)]

\* cadastrar_fornecedor: the form's fields as the handler holds them (lines
\* 297-311 and 755-766; the second iteration reads no idade, site or obs)
FornecedorDados(v, form) ==
    [nome |-> sanitizar_input(v, form.nome),
     razao |-> sanitizar_input(v, form.razao),
     cpfcnpj |-> sanitizar_input(v, form.cpfcnpj),
     idade |-> IF v = 1 THEN sanitizar_input(v, form.idade) ELSE << >>,
     telefone |-> sanitizar_input(v, form.telefone),
     email |-> sanitizar_input(v, form.email),
     endereco |-> sanitizar_input(v, form.endereco),
     site |-> IF v = 1 THEN sanitizar_input(v, form.site) ELSE NoneValue,
     servico |-> sanitizar_input(v, form.servico),
     tempo |-> sanitizar_input(v, form.tempo),
     contrato |-> sanitizar_input(v, form.contrato),
     responsavel |-> sanitizar_input(v, form.responsavel),
     obs |-> IF v = 1 THEN sanitizar_input(v, form.obs) ELSE NoneValue]

obrigatorios == <<"nome", "razao", "cpfcnpj", "telefone", "email",
                  "endereco", "servico", "tempo", "contrato", "responsavel">>

MsgObrigatorio(campo) ==
    CASE campo = "nome" -> "O campo 'nome' e obrigatorio."
      [] campo = "razao" -> "O campo 'razao' e obrigatorio."
      [] campo = "cpfcnpj" -> "O campo 'cpfcnpj' e obrigatorio."
      [] campo = "telefone" -> "O campo 'telefone' e obrigatorio."
      [] campo = "email" -> "O campo 'email' e obrigatorio."
      [] campo = "endereco" -> "O campo 'endereco' e obrigatorio."
      [] campo = "servico" -> "O campo 'servico' e obrigatorio."
      [] campo = "tempo" -> "O campo 'tempo' e obrigatorio."
      [] campo = "contrato" -> "O campo 'contrato' e obrigatorio."
      [] campo = "responsavel" -> "O campo 'responsavel' e obrigatorio."

\* the checks of cadastrar_fornecedor in the code's order (lines 316-344 and
\* 772-780)
FornecedorChecks(v, form) ==
    LET d == FornecedorDados(v, form)
        missing == {k \in 1..Len(obrigatorios) : d[obrigatorios[k]] = << >>}
        limpo == OnlyDigits(d.cpfcnpj)
    IN  IF missing # {}
        THEN Result(400, MsgObrigatorio(
                 obrigatorios[CHOOSE k \in missing : \A j \in missing : k <= j]))
        ELSE IF ~validar_email(d.email)
        THEN Result(400, "Email invalido.")
        ELSE IF ~validar_telefone(v, d.telefone)
        THEN Result(400, "Telefone invalido.")
        ELSE IF v = 2 THEN Passed
        ELSE IF Len(limpo) = 11 /\ ~validar_cpf(limpo)
        THEN Result(400, "CPF invalido.")
        ELSE IF Len(limpo) = 14 /\ ~validar_cnpj(limpo)
        THEN Result(400, "CNPJ invalido.")
        ELSE IF Len(limpo) \notin {11, 14}
        THEN Result(400, "CPF/CNPJ invalido.")
        ELSE IF d.idade # << >> /\ ~IsDigitText(d.idade)
        THEN Result(400, "Idade deve conter apenas numeros.")
        ELSE IF d.idade # << >> /\ (IntOf(d.idade) < 18 \/ IntOf(d.idade) > 120)
        THEN Result(400, "Idade invalida.")
        ELSE Passed

\* the parameters of INSERT INTO fornecedores (lines 357-361 and 798-800)
FornecedorParams(v, form) ==
    LET d == FornecedorDados(v, form)
    IN  [d EXCEPT !.idade = IF v = 1 /\ d.idade # << >>
                            THEN {IntOf(d.idade)} ELSE {}]

(***************************************************************************)
(* Request inputs: the form texts the model draws from.                    *)
(***************************************************************************)
NomeAna == <<"A", "n", "a">>
EnderecoRua == <<"R", "u", "a", " ", "1">>
TextoX == <<"x">>
EmailA == <<"a", "n", "a", "@", "x", ".", "c", "o">>
EmailAEspacos == <<" ", "a", "n", "a", "@", "x", ".", "c", "o", " ">>
EmailB == <<"b", "i", "a", "@", "x", ".", "c", "o">>
EmailRuim == <<"a", "n", "a", ".", "x", ".", "c", "o">>
TelefoneOk == <<"1", "1", "9", "8", "7", "6", "5", "4", "3", "2", "1">>
TelefoneZero == <<"0", "1", "2", "3", "4", "5", "6", "7", "8", "9">>
CpfA == <<"5", "2", "9", "9", "8", "2", "2", "4", "7", "2", "5">>
CpfB == <<"1", "1", "1", "4", "4", "4", "7", "7", "7", "3", "5">>
\* CpfA as it is usually written: 529.982.247-25
CpfAPontuado == <<"5", "2", "9", ".", "9", "8", "2", ".", "2", "4", "7", "-", "2", "5">>
CpfRuim == <<"5", "2", "9", "9", "8", "2", "2", "4", "7", "2", "4">>
CnpjA == <<"1", "1", "2", "2", "2", "3", "3", "3", "0", "0", "0", "1", "8", "0">>
CnpjRuim == <<"1", "1", "2", "2", "2", "3", "3", "3", "0", "0", "0", "1", "9", "9">>
SenhaForte == <<"A", "b", "c", "d", "e", "f", "1", "!">>
SenhaOutra == <<"X", "y", "z", "u", "v", "w", "2", "#">>
SenhaFraca == <<"a", "b", "c", "d", "e", "f">>
SenhaCurta == <<"a", "b", "c">>
Idade30 == <<"3", "0">>
Idade17 == <<"1", "7">>
IdadeAbc == <<"a", "b", "c">>
GeneroF == <<"F">>
GeneroFeminino == <<"f", "e", "m", "i", "n", "i", "n", "o">>
GeneroX == <<"X">>

ClienteBase(email, cpf) ==
    [nome |-> NomeAna, idade |-> Idade30, email |-> email,
     telefone |-> TelefoneOk, endereco |-> EnderecoRua, genero |-> GeneroF,
     cpf |-> cpf, senha |-> SenhaForte, confirmarSenha |-> SenhaForte]

\* forms every check accepts, sharing an email or a CPF pairwise
ClienteValidForms ==
    {ClienteBase(EmailA, CpfA), ClienteBase(EmailB, CpfA),
     ClienteBase(EmailB, CpfAPontuado)}

\* two forms every check accepts, sharing nothing
LoginClienteForms == {ClienteBase(EmailA, CpfA), ClienteBase(EmailB, CpfB)}

\* one field of an accepted form changed to a value some check refuses
ClienteBadForms ==
    LET b == ClienteBase(EmailA, CpfA)
    IN  {[b EXCEPT !.nome = << >>],
         [b EXCEPT !.confirmarSenha = SenhaOutra],
         [b EXCEPT !.senha = SenhaFraca, !.confirmarSenha = SenhaFraca],
         [b EXCEPT !.senha = SenhaCurta, !.confirmarSenha = SenhaCurta],
         [b EXCEPT !.email = EmailRuim],
         [b EXCEPT !.telefone = TelefoneZero],
         [b EXCEPT !.cpf = CpfRuim],
         [b EXCEPT !.idade = Idade17],
         [b EXCEPT !.idade = IdadeAbc],
         [b EXCEPT !.genero = GeneroX],
         [b EXCEPT !.genero = GeneroFeminino]}

ClienteForms == ClienteValidForms \cup ClienteBadForms

FornecedorBase(cpfcnpj) ==
    [nome |-> NomeAna, razao |-> TextoX, cpfcnpj |-> cpfcnpj, idade |-> << >>,
     telefone |-> TelefoneOk, email |-> EmailA, endereco |-> EnderecoRua,
     site |-> << >>, servico |-> TextoX, tempo |-> TextoX,
     contrato |-> TextoX, responsavel |-> TextoX, obs |-> << >>]

FornecedorValidForms ==
    {FornecedorBase(CpfA), FornecedorBase(CnpjA),
     [FornecedorBase(CpfA) EXCEPT !.idade = Idade30]}

FornecedorBadForms ==
    LET b == FornecedorBase(CpfA)
    IN  {[b EXCEPT !.responsavel = << >>],
         [b EXCEPT !.email = EmailRuim],
         [b EXCEPT !.telefone = TelefoneZero],
         [b EXCEPT !.cpfcnpj = CpfRuim],
         [b EXCEPT !.cpfcnpj = CnpjRuim],
         [b EXCEPT !.idade = Idade17],
         [b EXCEPT !.idade = IdadeAbc]}

FornecedorForms == FornecedorValidForms \cup FornecedorBadForms

\* the two supplier forms the application as a whole is run with
FornecedorFewForms ==
    {FornecedorBase(CpfA), [FornecedorBase(CpfA) EXCEPT !.responsavel = << >>]}

LoginForms ==
    {[email |-> e, senha |-> p] :
        e \in {EmailA, EmailAEspacos, EmailB, << >>},
        p \in {SenhaForte, SenhaOutra, << >>}}

\* the form of a request that sends no field at all
EmptyLoginForm == [email |-> << >>, senha |-> << >>]
EmptyClienteForm == [f \in DOMAIN ClienteBase(EmailA, CpfA) |-> << >>]
EmptyFornecedorForm == [f \in DOMAIN FornecedorBase(CpfA) |-> << >>]

AllLoginForms == LoginForms \cup {EmptyLoginForm}
AllClienteForms == ClienteForms \cup LoginClienteForms \cup {EmptyClienteForm}
AllFornecedorForms == FornecedorForms \cup {EmptyFornecedorForm}

\* The form-only part of each handler, tabulated over the forms above: the
\* handlers below read the tables, so each form is sanitized and validated
\* once per run and not once per state.
LoginEmailOf ==
    [v \in {1, 2} |-> [form \in AllLoginForms |-> sanitizar_input(v, form.email)]]

ClienteChecksOf ==
    [v \in {1, 2} |-> [form \in AllClienteForms |-> ClienteChecks(v, form)]]

ClienteParamsOf ==
    [v \in {1, 2} |-> [form \in AllClienteForms |->
        [salt \in Salts |-> ClienteParams(v, form, salt)]]]

FornecedorChecksOf ==
    [v \in {1, 2} |-> [form \in AllFornecedorForms |-> FornecedorChecks(v, form)]]

FornecedorParamsOf ==
    [v \in {1, 2} |-> [form \in AllFornecedorForms |-> FornecedorParams(v, form)]]

(***************************************************************************)
(* The rate limiter (rate_limit, lines 44-61 and 558-578).  request_times  *)
(* is a defaultdict(list): an address never seen reads as the empty list.  *)
(***************************************************************************)
\* line 239, 294, 375: @rate_limit(max_requests=10, window=60)
MutatingMax == 10
\* line 458, 492: @rate_limit(max_requests=30, window=60)
ReadMax == 30
WindowSecs == 60

Endpoints == {"login_cliente", "cadastrar", "cadastrar_cliente",
              "fornecedores_json", "clientes_json"}

ReadEndpoints == {"fornecedores_json", "clientes_json"}

\* for comparison: listings allowed twice as often
max_requests_double(endpoint) ==
    IF endpoint \in ReadEndpoints THEN 2 * ReadMax ELSE MutatingMax

\* for comparison: one limit for every endpoint
max_requests_flat(endpoint) == ReadMax

max_requests(endpoint) ==
    IF endpoint \in ReadEndpoints THEN ReadMax ELSE MutatingMax

window(endpoint) == WindowSecs

\* for comparison: a window that still holds a timestamp exactly w old
EvictThrough(times, nw, w) == SelectSeq(times, LAMBDA t : nw - t <= w)

\* [t for t in request_times[ip] if now - t < window]
Evict(times, nw, w) == SelectSeq(times, LAMBDA t : nw - t < w)

\* for comparison: a limiter that lets one request more through
OverLimitAbove(times, maxreq) == Len(times) > maxreq

\* len(request_times[ip]) >= max_requests
OverLimit(times, maxreq) == Len(times) >= maxreq

\* for comparison: a limiter that records the attempts it turns away
rate_limit_recording(times, nw, maxreq, w) ==
    LET kept == SelectSeq(times, LAMBDA t : nw - t < w)
    IN  IF Len(kept) >= maxreq
        THEN [times |-> Append(kept, nw), rejected |-> TRUE]
        ELSE [times |-> Append(kept, nw), rejected |-> FALSE]

\* for comparison: a limiter that puts the new timestamp in front
rate_limit_prepending(times, nw, maxreq, w) ==
    LET kept == SelectSeq(times, LAMBDA t : nw - t < w)
    IN  IF Len(kept) >= maxreq
        THEN [times |-> kept, rejected |-> TRUE]
        ELSE [times |-> <<nw>> \o kept, rejected |-> FALSE]

\* decorated_function up to the call of f: the list the address is left
\* with, and whether the request was turned away with 429
rate_limit(times, nw, maxreq, w) ==
    LET kept == Evict(times, nw, w)
    IN  IF OverLimit(kept, maxreq)
        THEN [times |-> kept, rejected |-> TRUE]
        ELSE [times |-> Append(kept, nw), rejected |-> FALSE]

MsgMuitas == "Muitas requisicoes. Tente novamente mais tarde."

(***************************************************************************)
(* The database part of the two registration handlers, statement by        *)
(* statement: the connection, the SELECT before the INSERT, the INSERT     *)
(* with its commit.  A SERIAL id is drawn when the INSERT executes, also   *)
(* when a constraint then refuses the row.                                 *)
(***************************************************************************)
\* lines 422-427 / 847-856: the answer when the handler stops here
ClientePrecheck(v, params, db, table) ==
    IF ~db THEN ConnectFailed(v)
    ELSE IF ClienteExists(table, params.email, params.cpf)
    THEN Result(400, "Email ou CPF ja cadastrado.")
    ELSE Passed

\* lines 429-448 / 859-878: the INSERT, the commit, the session keys
ClienteInsert(v, params, table, seq) ==
    LET res == ClienteInsertResult(v, table, params)
        row == ClienteRow(v, seq, params)
        after == Append(table, row)
        novo_cliente ==
            IF v = 1 THEN CHOOSE c \in ClienteByEmail(after, params.email) : TRUE
            ELSE row
    IN  IF res = "ok"
        THEN [status |-> 200, msg |-> "Cliente cadastrado com sucesso!",
              table |-> after, seq |-> seq + 1,
              session |-> SessionOf(v, novo_cliente)]
        ELSE [status |-> 500, msg |-> MsgInterno, table |-> table,
              seq |-> IF res = "data_error" THEN seq ELSE seq + 1,
              session |-> EmptyDict]

\* lines 346-351 / 783-792
FornecedorPrecheck(v, params, db, table) ==
    IF ~db THEN ConnectFailed(v)
    ELSE IF FornecedorExists(table, params.cpfcnpj)
    THEN Result(400, "CPF/CNPJ ja cadastrado.")
    ELSE Passed

\* lines 353-365 / 795-806
FornecedorInsert(v, params, table, seq) ==
    LET res == FornecedorInsertResult(v, table, params)
    IN  IF res = "ok"
        THEN [status |-> 200, msg |-> "Cadastro realizado com sucesso!",
              table |-> Append(table, FornecedorRow(seq, params)),
              seq |-> seq + 1]
        ELSE [status |-> 500, msg |-> MsgInterno, table |-> table,
              seq |-> IF res = "data_error" THEN seq ELSE seq + 1]

\* login_cliente (lines 240-273 and 692-729): db is TRUE when the connection
\* can be made.  The result also carries the session keys assigned.
login_cliente(v, form, db, table) ==
    LET email == LoginEmailOf[v][form]
        senha == form.senha
        found == ClienteByEmail(table, email)
        fail(r) == [status |-> r.status, msg |-> r.msg, session |-> EmptyDict]
    IN  IF email = << >> \/ senha = << >>
        THEN fail(Result(400, "Email e senha sao obrigatorios."))
        ELSE IF ~db THEN fail(ConnectFailed(v))
        ELSE IF found = {}
        THEN fail(Result(401, "Email ou senha incorretos."))
        ELSE LET cliente == CHOOSE c \in found : TRUE
             IN  IF ~check_password_hash(cliente.senha, senha)
                 THEN fail(Result(401, "Email ou senha incorretos."))
                 ELSE [status |-> 200, msg |-> "Login realizado com sucesso!",
                       session |-> SessionOf(v, cliente)]

\* cadastrar_cliente as a whole (lines 376-452 and 817-882)
cadastrar_cliente(v, form, salt, db, table, seq) ==
    LET chk == ClienteChecksOf[v][form]
        params == ClienteParamsOf[v][form][salt]
        pre == ClientePrecheck(v, params, db, table)
        stop(r) == [status |-> r.status, msg |-> r.msg, table |-> table,
                    seq |-> seq, session |-> EmptyDict]
    IN  IF chk # Passed THEN stop(chk)
        ELSE IF pre # Passed THEN stop(pre)
        ELSE ClienteInsert(v, params, table, seq)

\* cadastrar_fornecedor as a whole (lines 295-369 and 752-810)
cadastrar_fornecedor(v, form, db, table, seq) ==
    LET chk == FornecedorChecksOf[v][form]
        params == FornecedorParamsOf[v][form]
        pre == FornecedorPrecheck(v, params, db, table)
        stop(r) == [status |-> r.status, msg |-> r.msg, table |-> table,
                    seq |-> seq]
    IN  IF chk # Passed THEN stop(chk)
        ELSE IF pre # Passed THEN stop(pre)
        ELSE FornecedorInsert(v, params, table, seq)

\* check_session (lines 281-288 and 738-745): the JSON it returns.
\* session.get(k) of a missing key is None.
SessionGet(d, k) == IF k \in DOMAIN d THEN d[k] ELSE NoneValue

IsLoggedIn(d) == "logged_in" \in DOMAIN d /\ d["logged_in"] = TRUE

check_session(v, d) ==
    IF IsLoggedIn(d)
    THEN IF v = 1
         THEN [logged_in |-> TRUE, cliente_nome |-> SessionGet(d, "cliente_nome"),
               cliente_email |-> SessionGet(d, "cliente_email")]
         ELSE [logged_in |-> TRUE, cliente_nome |-> SessionGet(d, "cliente_nome")]
    ELSE [logged_in |-> FALSE]

\* fornecedores_json / clientes_json (lines 459-517 and 889-925): the JSON
\* array, rows in ORDER BY id DESC; clientes_json selects no senha
Reverse(seq) == [k \in 1..Len(seq) |-> seq[Len(seq) + 1 - k]]

fornecedores_json(table) == Reverse(table)

ClientePublic(row) ==
    [id |-> row.id, nome |-> row.nome, idade |-> row.idade, email |-> row.email,
     telefone |-> row.telefone, endereco |-> row.endereco,
     genero |-> row.genero, cpf |-> row.cpf]

clientes_json(table) == Reverse([k \in 1..Len(table) |-> ClientePublic(table[k])])

Addrs == {"10.0.0.1"}

\* peers of the requests that come through a proxy or straight from a client,
\* and what their X-Forwarded-For header holds ("absent": no such header)
ProxyPeers == {"10.0.0.1", "10.0.0.2"}
Absent == "absent"
ForwardedFor == {Absent, "10.0.0.2", "10.0.0.3"}

\* every address request_times may be asked for (it is a defaultdict)
AllAddrs == Addrs \cup ProxyPeers \cup (ForwardedFor \ {Absent})
Sessions == {"s1"}
Threads == {"t1", "t2"}

\* the clock advances by TickStep seconds at a time, up to MaxNow
TickStep == 30
MaxNow == 90

(***************************************************************************)
(* State                                                                   *)
(***************************************************************************)
VARIABLES
    variant,        \* 1: lines 1-531, 2: lines 531-963
    now,            \* time(), in seconds
    request_times,  \* address -> timestamps of its accepted requests
    fornecedores,   \* table fornecedores
    clientes,       \* table clientes
    forn_seq,       \* next value of fornecedores_id_seq
    cli_seq,        \* next value of clientes_id_seq
    session,        \* browser -> the dict its session cookie holds
    resp,           \* the last response sent
    threads,        \* request-handling thread -> where it is in its handler
    last_mutating,  \* history: address -> when a registration or login
                    \* request of it last passed the limiter, -1 if never
    call            \* a validator called on its own: function, argument,
                    \* return value

dbvars == <<fornecedores, clientes, forn_seq, cli_seq>>

vars == <<variant, now, request_times, fornecedores, clientes, forn_seq,
          cli_seq, session, resp, threads, last_mutating, call>>

Idle == [pc |-> "idle"]

NoBody == << >>

Response(endpoint, ip, s, status, msg, body) ==
    [endpoint |-> endpoint, ip |-> ip, sess |-> s, status |-> status,
     msg |-> msg, body |-> body]

Rejected(endpoint, ip, s) == Response(endpoint, ip, s, 429, MsgMuitas, NoBody)

NoCall == [fn |-> "none", arg |-> << >>, ret |-> FALSE]

\* the application as it starts, whatever is in call
Started ==
    /\ variant \in {1, 2}
    /\ now = 0
    /\ request_times = [ip \in AllAddrs |-> << >>]
    /\ fornecedores = << >>
    /\ clientes = << >>
    /\ forn_seq = 1
    /\ cli_seq = 1
    /\ session = [s \in Sessions |-> EmptyDict]
    /\ resp = Response("none", "none", "none", 0, "", NoBody)
    /\ threads = [t \in Threads |-> Idle]
    /\ last_mutating = [ip \in AllAddrs |-> -1]

Init == Started /\ call = NoCall

(***************************************************************************)
(* The handlers behind the limiter: what one call of f(...)    *)
(* does to the response, the session and the tables.                       *)
(***************************************************************************)
\* POST /login_cliente
RunLoginCliente(ip, s, form, db) ==
    LET out == login_cliente(variant, form, db, clientes)
    IN  /\ resp' = Response("login_cliente", ip, s, out.status, out.msg, NoBody)
        /\ session' = [session EXCEPT ![s] = DictUpdate(@, out.session)]
        /\ UNCHANGED dbvars

\* POST /cadastrar
RunCadastrarFornecedor(ip, s, form, db) ==
    LET out == cadastrar_fornecedor(variant, form, db, fornecedores, forn_seq)
    IN  /\ resp' = Response("cadastrar", ip, s, out.status, out.msg, NoBody)
        /\ fornecedores' = out.table
        /\ forn_seq' = out.seq
        /\ UNCHANGED <<clientes, cli_seq, session>>

\* POST /cadastrar_cliente
RunCadastrarCliente(ip, s, form, salt, db) ==
    LET out == cadastrar_cliente(variant, form, salt, db, clientes, cli_seq)
    IN  /\ resp' = Response("cadastrar_cliente", ip, s, out.status, out.msg, NoBody)
        /\ clientes' = out.table
        /\ cli_seq' = out.seq
        /\ session' = [session EXCEPT ![s] = DictUpdate(@, out.session)]
        /\ UNCHANGED <<fornecedores, forn_seq>>

MsgCarregar(v) == IF v = 1 THEN "Erro ao carregar dados." ELSE MsgConexao

\* GET /fornecedores_json
RunFornecedoresJson(ip, s, db) ==
    /\ resp' = IF ~db
               THEN Response("fornecedores_json", ip, s, 500,
                             MsgCarregar(variant), NoBody)
               ELSE Response("fornecedores_json", ip, s, 200, "",
                             fornecedores_json(fornecedores))
    /\ UNCHANGED <<dbvars, session>>

\* GET /clientes_json
RunClientesJson(ip, s, db) ==
    /\ resp' = IF ~db
               THEN Response("clientes_json", ip, s, 500,
                             MsgCarregar(variant), NoBody)
               ELSE Response("clientes_json", ip, s, 200, "",
                             clientes_json(clientes))
    /\ UNCHANGED <<dbvars, session>>

\* f(...) of the endpoint
Run(endpoint, ip, s, form, salt, db) ==
    CASE endpoint = "login_cliente" -> RunLoginCliente(ip, s, form, db)
      [] endpoint = "cadastrar" -> RunCadastrarFornecedor(ip, s, form, db)
      [] endpoint = "cadastrar_cliente" -> RunCadastrarCliente(ip, s, form, salt, db)
      [] endpoint = "fornecedores_json" -> RunFornecedoresJson(ip, s, db)
      [] endpoint = "clientes_json" -> RunClientesJson(ip, s, db)

(***************************************************************************)
(* Requests handled one at a time: each action is one request, from the    *)
(* rate limiter's check to the response.                                   *)
(***************************************************************************)
\* the clock between two requests
Tick ==
    /\ now + TickStep <= MaxNow
    /\ now' = now + TickStep
    /\ UNCHANGED <<call, variant, request_times, dbvars, session, resp, threads,
                   last_mutating>>

Limited(endpoint, ip) ==
    rate_limit(request_times[ip], now, max_requests(endpoint), window(endpoint))

\* the history variable after a request passed the limiter at time nw
Passing(endpoint, ip, nw) ==
    IF endpoint \in ReadEndpoints THEN last_mutating
    ELSE [last_mutating EXCEPT ![ip] = nw]

\* for comparison: a limiter that keeps one list for all addresses
RequestOneList(endpoint, ip, s, form, salt, db) ==
    LET rl == Limited(endpoint, ip)
    IN  /\ request_times' = [a \in DOMAIN request_times |-> rl.times]
        /\ IF rl.rejected
           THEN /\ resp' = Rejected(endpoint, ip, s)
                /\ UNCHANGED <<dbvars, session, last_mutating>>
           ELSE /\ Run(endpoint, ip, s, form, salt, db)
                /\ last_mutating' = Passing(endpoint, ip, now)
        /\ UNCHANGED <<call, variant, now, threads>>

\* decorated_function: the limiter, then the handler
Request(endpoint, ip, s, form, salt, db) ==
    LET rl == Limited(endpoint, ip)
    IN  /\ request_times' = [request_times EXCEPT ![ip] = rl.times]
        /\ IF rl.rejected
           THEN /\ resp' = Rejected(endpoint, ip, s)
                /\ UNCHANGED <<dbvars, session, last_mutating>>
           ELSE /\ Run(endpoint, ip, s, form, salt, db)
                /\ last_mutating' = Passing(endpoint, ip, now)
        /\ UNCHANGED <<call, variant, now, threads>>

NoForm == EmptyDict
NoSalt == "none"

LoginCliente(ip, s, form, db) ==
    Request("login_cliente", ip, s, form, NoSalt, db)

CadastrarFornecedor(ip, s, form, db) ==
    Request("cadastrar", ip, s, form, NoSalt, db)

CadastrarCliente(ip, s, form, salt, db) ==
    Request("cadastrar_cliente", ip, s, form, salt, db)

FornecedoresJson(ip, s, db) ==
    Request("fornecedores_json", ip, s, NoForm, NoSalt, db)

ClientesJson(ip, s, db) ==
    Request("clientes_json", ip, s, NoForm, NoSalt, db)

\* GET /logout: session.clear()
Logout(ip, s) ==
    /\ session' = [session EXCEPT ![s] = EmptyDict]
    /\ resp' = Response("logout", ip, s, IF variant = 1 THEN 302 ELSE 200, "", NoBody)
    /\ UNCHANGED <<call, variant, now, request_times, dbvars, threads, last_mutating>>

\* GET /check_session
CheckSession(ip, s) ==
    /\ resp' = Response("check_session", ip, s, 200, "",
                        check_session(variant, session[s]))
    /\ UNCHANGED <<call, variant, now, request_times, dbvars, session, threads,
                   last_mutating>>

(***************************************************************************)
(* Requests handled by concurrent threads.  request_times is a module      *)
(* global with no lock (line 32 / 551): between two of the limiter's       *)
(* statements another thread may run.  Each thread keeps its request and   *)
(* the locals of decorated_function.                                       *)
(***************************************************************************)
Call(pc, endpoint, ip, s, form, salt, db, nw) ==
    [pc |-> pc, endpoint |-> endpoint, ip |-> ip, sess |-> s, form |-> form,
     salt |-> salt, db |-> db, nw |-> nw]

At(t, pc) == [threads[t] EXCEPT !.pc = pc]

\* lines 49-50 and the right-hand side of line 53: ip, now, and the list
\* comprehension over the list the address has at this moment
ThreadBegin(t, ip, s, endpoint, form, salt, db) ==
    /\ threads[t].pc = "idle"
    /\ threads' = [threads EXCEPT ![t] =
           [kept |-> Evict(request_times[ip], now, window(endpoint))]
           @@ Call("store", endpoint, ip, s, form, salt, db, now)]
    /\ UNCHANGED <<call, variant, now, request_times, dbvars, session, resp,
                   last_mutating>>

\* line 53, the assignment: request_times[ip] = <the comprehension's list>
ThreadStore(t) ==
    LET th == threads[t]
    IN  /\ th.pc = "store"
        /\ request_times' = [request_times EXCEPT ![th.ip] = th.kept]
        /\ threads' = [threads EXCEPT ![t] =
               Call("check", th.endpoint, th.ip, th.sess, th.form, th.salt,
                    th.db, th.nw)]
        /\ UNCHANGED <<call, variant, now, dbvars, session, resp, last_mutating>>

\* lines 55-56: the length test and the 429
ThreadCheck(t) ==
    LET th == threads[t]
    IN  /\ th.pc = "check"
        /\ IF OverLimit(request_times[th.ip], max_requests(th.endpoint))
           THEN /\ resp' = Rejected(th.endpoint, th.ip, th.sess)
                /\ threads' = [threads EXCEPT ![t] = Idle]
           ELSE /\ threads' = [threads EXCEPT ![t] = At(t, "append")]
                /\ UNCHANGED resp
        /\ UNCHANGED <<call, variant, now, request_times, dbvars, session,
                       last_mutating>>

\* line 58: request_times[ip].append(now)
ThreadAppend(t) ==
    LET th == threads[t]
    IN  /\ th.pc = "append"
        /\ request_times' = [request_times EXCEPT ![th.ip] = Append(@, th.nw)]
        /\ last_mutating' = Passing(th.endpoint, th.ip, th.nw)
        /\ threads' = [threads EXCEPT ![t] = At(t, "handler")]
        /\ UNCHANGED <<call, variant, now, dbvars, session, resp>>

\* line 59: return f(...), the handler in one piece
ThreadHandle(t) ==
    LET th == threads[t]
    IN  /\ th.pc = "handler"
        /\ Run(th.endpoint, th.ip, th.sess, th.form, th.salt, th.db)
        /\ threads' = [threads EXCEPT ![t] = Idle]
        /\ UNCHANGED <<call, variant, now, request_times, last_mutating>>

\* lines 49-58 in one piece, for the specification that interleaves the
\* handlers' statements instead
ThreadLimit(t, ip, s, endpoint, form, salt, db) ==
    LET rl == Limited(endpoint, ip)
    IN  /\ threads[t].pc = "idle"
        /\ request_times' = [request_times EXCEPT ![ip] = rl.times]
        /\ IF rl.rejected
           THEN /\ resp' = Rejected(endpoint, ip, s)
                /\ UNCHANGED <<threads, last_mutating>>
           ELSE /\ threads' = [threads EXCEPT ![t] =
                       Call("handler", endpoint, ip, s, form, salt, db, now)]
                /\ last_mutating' = Passing(endpoint, ip, now)
                /\ UNCHANGED resp
        /\ UNCHANGED <<call, variant, now, dbvars, session>>

\* a registration handler up to its SELECT (lines 296-351 / 377-427): the
\* checks of the form, the connection, the look-up of the key.  The
\* handler answers here, or goes on to its INSERT.
ThreadPrecheck(t) ==
    LET th == threads[t]
        cliente == th.endpoint = "cadastrar_cliente"
        chk == IF cliente THEN ClienteChecksOf[variant][th.form]
               ELSE FornecedorChecksOf[variant][th.form]
        pre == IF cliente
               THEN ClientePrecheck(variant,
                        ClienteParamsOf[variant][th.form][th.salt], th.db, clientes)
               ELSE FornecedorPrecheck(variant,
                        FornecedorParamsOf[variant][th.form], th.db, fornecedores)
        stop == IF chk # Passed THEN chk ELSE pre
    IN  /\ th.pc = "handler"
        /\ th.endpoint \in {"cadastrar", "cadastrar_cliente"}
        /\ IF stop # Passed
           THEN /\ resp' = Response(th.endpoint, th.ip, th.sess, stop.status,
                                    stop.msg, NoBody)
                /\ threads' = [threads EXCEPT ![t] = Idle]
           ELSE /\ threads' = [threads EXCEPT ![t] = At(t, "insert")]
                /\ UNCHANGED resp
        /\ UNCHANGED <<call, variant, now, request_times, dbvars, session,
                       last_mutating>>

\* the rest of the handler (lines 353-365 / 429-448): INSERT, commit,
\* session keys, response
ThreadInsert(t) ==
    LET th == threads[t]
    IN  /\ th.pc = "insert"
        /\ IF th.endpoint = "cadastrar_cliente"
           THEN LET out == ClienteInsert(variant,
                               ClienteParamsOf[variant][th.form][th.salt],
                               clientes, cli_seq)
                IN  /\ resp' = Response(th.endpoint, th.ip, th.sess, out.status,
                                        out.msg, NoBody)
                    /\ clientes' = out.table
                    /\ cli_seq' = out.seq
                    /\ session' = [session EXCEPT ![th.sess] =
                                       DictUpdate(@, out.session)]
                    /\ UNCHANGED <<fornecedores, forn_seq>>
           ELSE LET out == FornecedorInsert(variant,
                               FornecedorParamsOf[variant][th.form],
                               fornecedores, forn_seq)
                IN  /\ resp' = Response(th.endpoint, th.ip, th.sess, out.status,
                                        out.msg, NoBody)
                    /\ fornecedores' = out.table
                    /\ forn_seq' = out.seq
                    /\ UNCHANGED <<clientes, cli_seq, session>>
        /\ threads' = [threads EXCEPT ![t] = Idle]
        /\ UNCHANGED <<call, variant, now, request_times, last_mutating>>

(***************************************************************************)
(* Specifications                                                          *)
(***************************************************************************)
\* The application: registrations, login and the session endpoints, from any
\* form of the input sets, with the database up or down.
Next ==
    \E ip \in Addrs, s \in Sessions, db \in BOOLEAN :
        \/ \E form \in LoginForms : LoginCliente(ip, s, form, db)
        \/ Logout(ip, s)
        \/ CheckSession(ip, s)
        \/ \E form \in FornecedorFewForms : CadastrarFornecedor(ip, s, form, db)
        \/ \E form \in ClienteForms, salt \in Salts :
               CadastrarCliente(ip, s, form, salt, db)

Spec == Init /\ [][Next]_vars

\* The rate limiter under load: the five limited endpoints, requests that
\* send no field (the handlers answer without touching a table), the clock.
NextRate ==
    \/ Tick
    \/ \E ip \in Addrs, s \in Sessions :
        \/ LoginCliente(ip, s, EmptyLoginForm, TRUE)
        \/ CadastrarFornecedor(ip, s, EmptyFornecedorForm, TRUE)
        \/ \E salt \in Salts : CadastrarCliente(ip, s, EmptyClienteForm, salt, TRUE)
        \/ FornecedoresJson(ip, s, TRUE)
        \/ ClientesJson(ip, s, TRUE)

SpecRate == Init /\ [][NextRate]_vars

\* Supplier registration on its own, from every supplier form.
NextFornecedor ==
    \E ip \in Addrs, s \in Sessions, db \in BOOLEAN :
        \/ \E form \in FornecedorForms : CadastrarFornecedor(ip, s, form, db)
        \/ FornecedoresJson(ip, s, db)

SpecFornecedor == Init /\ [][NextFornecedor]_vars

\* Registration and login of clients: the forms every check accepts, every
\* login form, the database up or down.
NextLogin ==
    \E ip \in Addrs, s \in Sessions, db \in BOOLEAN :
        \/ \E form \in LoginClienteForms, salt \in Salts :
               CadastrarCliente(ip, s, form, salt, db)
        \/ \E form \in LoginForms : LoginCliente(ip, s, form, db)
        \/ Logout(ip, s)
        \/ CheckSession(ip, s)

SpecLogin == Init /\ [][NextLogin]_vars

\* The limiter's statements of two threads interleaved; the requests send no
\* field.
LimiterEndpoints == {"login_cliente", "clientes_json"}

LimiterForm(endpoint) ==
    IF endpoint = "login_cliente" THEN EmptyLoginForm ELSE NoForm

NextLimiter ==
    \E t \in Threads :
        \/ \E ip \in Addrs, s \in Sessions, endpoint \in LimiterEndpoints :
               ThreadBegin(t, ip, s, endpoint, LimiterForm(endpoint), NoSalt, TRUE)
        \/ ThreadStore(t)
        \/ ThreadCheck(t)
        \/ ThreadAppend(t)
        \/ ThreadHandle(t)

SpecLimiter == Init /\ [][NextLimiter]_vars

\* Two registrations at a time: the limiter in one piece, each handler's
\* SELECT and INSERT as separate steps.
RaceClienteForms == ClienteValidForms

RaceFornecedorForms == {FornecedorBase(CpfA)}

NextRace ==
    \E t \in Threads :
        \/ \E ip \in Addrs, s \in Sessions :
            \/ \E form \in RaceClienteForms, salt \in Salts :
                   ThreadLimit(t, ip, s, "cadastrar_cliente", form, salt, TRUE)
            \/ \E form \in RaceFornecedorForms :
                   ThreadLimit(t, ip, s, "cadastrar", form, NoSalt, TRUE)
        \/ ThreadPrecheck(t)
        \/ ThreadInsert(t)

SpecRace == Init /\ [][NextRace]_vars

\* A request whose peer address is peer and whose X-Forwarded-For header is
\* forwarded: decorated_function reads request.remote_addr and no header.
ProxiedRequest(endpoint, peer, forwarded, s, form, salt, db) ==
    /\ forwarded \in ForwardedFor
    /\ Request(endpoint, peer, s, form, salt, db)

\* Registrations of clients and of a supplier and logouts from two peers,
\* with and without the header, at one instant.
ProxyForms == {ClienteBase(EmailA, CpfA)}

NextProxy ==
    \E peer \in ProxyPeers, forwarded \in ForwardedFor, s \in Sessions :
        \/ \E form \in ProxyForms, salt \in Salts :
               ProxiedRequest("cadastrar_cliente", peer, forwarded, s, form,
                              salt, TRUE)
        \/ ProxiedRequest("cadastrar", peer, forwarded, s, FornecedorBase(CpfA),
                          NoSalt, TRUE)
        \/ Logout(peer, s)

SpecProxy == Init /\ [][NextProxy]_vars

\* Registrations followed by the two listings.
NextListing ==
    \E ip \in Addrs, s \in Sessions, db \in BOOLEAN :
        \/ \E form \in LoginClienteForms, salt \in Salts :
               CadastrarCliente(ip, s, form, salt, db)
        \/ \E form \in FornecedorFewForms : CadastrarFornecedor(ip, s, form, db)
        \/ FornecedoresJson(ip, s, db)
        \/ ClientesJson(ip, s, db)

SpecListing == Init /\ [][NextListing]_vars

\* The validators of tax IDs called on their own.  The texts: nine-digit
\* (CPF) and twelve-digit (CNPJ) stems followed by every pair of check
\* digits, the same with the usual punctuation, and texts one digit short or
\* long.
CpfStems == {<<"5", "2", "9", "9", "8", "2", "2", "4", "7">>,
             <<"1", "1", "1", "4", "4", "4", "7", "7", "7">>,
             <<"1", "2", "3", "4", "5", "6", "7", "8", "9">>,
             <<"0", "0", "0", "0", "0", "0", "0", "0", "0">>,
             <<"1", "1", "1", "1", "1", "1", "1", "1", "1">>}

CnpjStems == {<<"1", "1", "2", "2", "2", "3", "3", "3", "0", "0", "0", "1">>,
              <<"0", "0", "0", "0", "0", "0", "0", "0", "0", "0", "0", "1">>,
              <<"0", "0", "0", "0", "0", "0", "0", "0", "0", "0", "0", "0">>,
              <<"1", "1", "1", "1", "1", "1", "1", "1", "1", "1", "1", "1">>}

\* 529.982.247-25
CpfPontuado(c) ==
    SubSeq(c, 1, 3) \o <<".">> \o SubSeq(c, 4, 6) \o <<".">>
        \o SubSeq(c, 7, 9) \o <<"-">> \o SubSeq(c, 10, 11)

\* 11.222.333/0001-81
CnpjPontuado(c) ==
    SubSeq(c, 1, 2) \o <<".">> \o SubSeq(c, 3, 5) \o <<".">> \o SubSeq(c, 6, 8)
        \o <<"/">> \o SubSeq(c, 9, 12) \o <<"-">> \o SubSeq(c, 13, 14)

WithCheckDigits(stems) == {b \o <<x, y>> : b \in stems, x \in Digits, y \in Digits}

TaxIdTexts ==
    LET cpfs == WithCheckDigits(CpfStems)
        cnpjs == WithCheckDigits(CnpjStems)
    IN  cpfs \cup {CpfPontuado(c) : c \in cpfs}
        \cup cnpjs \cup {CnpjPontuado(c) : c \in cnpjs}
        \cup {SubSeq(c, 1, Len(c) - 1) : c \in {CpfA, CnpjA}}
        \cup {c \o <<"0">> : c \in {CpfA, CnpjA}}
        \cup {<< >>}

\* validar_cpf(texto)
ValidarCpf ==
    /\ call.fn = "none"
    /\ call' = [fn |-> "validar_cpf", arg |-> call.arg,
                ret |-> validar_cpf(call.arg)]
    /\ UNCHANGED <<variant, now, request_times, dbvars, session, resp, threads,
                   last_mutating>>

\* validar_cnpj(texto)
ValidarCnpj ==
    /\ call.fn = "none"
    /\ call' = [fn |-> "validar_cnpj", arg |-> call.arg,
                ret |-> validar_cnpj(call.arg)]
    /\ UNCHANGED <<variant, now, request_times, dbvars, session, resp, threads,
                   last_mutating>>

InitValidar ==
    /\ Started
    /\ variant = 1
    /\ call \in {[fn |-> "none", arg |-> a, ret |-> FALSE] : a \in TaxIdTexts}

NextValidar == ValidarCpf \/ ValidarCnpj

SpecValidar == InitValidar /\ [][NextValidar]_vars

(***************************************************************************)
(* Properties of the rate limiter                                          *)
(***************************************************************************)
\* a step that answers one rate-limited request (the clock stands still
\* while a request is answered; resp' is the answer)
Answered == now' = now /\ resp'.endpoint \in Endpoints

\* how many of the timestamps are less than a window old at time T
InWindow(times, T) ==
    Cardinality({i \in DOMAIN times : T - times[i] < WindowSecs})

\* the timestamps that remain after evicting the old ones
Remaining(times, T) == SelectSeq(times, LAMBDA t : T - t < WindowSecs)

\* the handler's own answer to a request that sends no field
HandlerRan(r) == r.status \in {200, 400} /\ r.msg # MsgMuitas

\* C1: a rate-limited request is answered 429 if and only if the number of
\* timestamps of its address that remain after evicting the old ones is at
\* least the endpoint's max_requests; otherwise the current time is appended
\* to the remaining timestamps and the handler answers.
C1_AdmissionRule ==
    [][Answered =>
        LET ip == resp'.ip
            left == Remaining(request_times[ip], now)
        IN  /\ resp'.status = 429 <=> Len(left) >= max_requests(resp'.endpoint)
            /\ resp'.status # 429 =>
                   /\ request_times'[ip] = Append(left, now)
                   /\ HandlerRan(resp')
    ]_vars

\* a request turned away at second 60 by ten timestamps of which some are 30
\* seconds old: the older ones were evicted, the rest still fill the limit
C1_Witness ==
    /\ resp.status = 429
    /\ now = 2 * TickStep
    /\ Len(request_times[resp.ip]) = MutatingMax
    /\ \E i, j \in DOMAIN request_times[resp.ip] :
           request_times[resp.ip][i] < request_times[resp.ip][j]

\* whether a request under limit N would be admitted at time T
Admitted(times, T, N) == InWindow(times, T) < N

\* the times from T0 on at which the count of timestamps in the window can
\* change: T0, and the moment each timestamp becomes a window old
Turns(times, T0) ==
    {T0} \cup {T \in {times[i] + WindowSecs : i \in DOMAIN times} : T >= T0}

\* C2: after a 429 the list of the address holds exactly the timestamps that
\* survived eviction, none for the attempt turned away, so that the attempt
\* changes nothing about when later requests are admitted.
C2_RejectedNotRecorded ==
    [][(Answered /\ resp'.status = 429) =>
        LET old == request_times[resp'.ip]
            new == request_times'[resp'.ip]
        IN  /\ new = Remaining(old, now)
            /\ Len(new) <= Len(old)
            /\ \A T \in Turns(old, now) \cup Turns(new, now),
                  N \in {MutatingMax, ReadMax} :
                   Admitted(new, T, N) <=> Admitted(old, T, N)
    ]_vars

\* a registration turned away some time after the ten requests that fill the
\* list: the list still holds those ten timestamps and nothing else
C2_Witness ==
    /\ resp.status = 429
    /\ resp.endpoint = "cadastrar"
    /\ now > 0
    /\ request_times[resp.ip] = [i \in 1..MutatingMax |-> 0]

\* C3: burst then recovery.  While all recorded requests of the address are
\* less than a window old, a request is allowed exactly when fewer than
\* max_requests were accepted before it (the first N pass, request N+1 is
\* turned away); once a full window has passed since every accepted request,
\* the next request is allowed and starts a new history.
C3_BurstThenRecovery ==
    [][Answered =>
        LET ip == resp'.ip
            old == request_times[ip]
            N == max_requests(resp'.endpoint)
        IN  /\ (\A i \in DOMAIN old : now - old[i] < WindowSecs) =>
                   (resp'.status = 429 <=> Len(old) >= N)
            /\ (\A i \in DOMAIN old : now - old[i] >= WindowSecs) =>
                   /\ resp'.status # 429
                   /\ request_times'[ip] = <<now>>
    ]_vars

\* a request accepted at second 60 as the first of a new history: whatever
\* the address had accepted at second 0 has left the window
C3_Witness ==
    /\ now = WindowSecs
    /\ resp.status # 429
    /\ resp.endpoint \in Endpoints
    /\ request_times[resp.ip] = <<now>>
    /\ last_mutating[resp.ip] = now

\* C4 as stated, in its plainest case: an address from which no registration
\* or login request was accepted in the last 60 seconds (fewer than 10, then)
\* is allowed a registration or login request, whatever it read meanwhile.
C4_PerCategoryCount ==
    [][(Answered /\ resp'.endpoint \notin ReadEndpoints
           /\ (last_mutating[resp'.ip] = -1
               \/ now - last_mutating[resp'.ip] >= WindowSecs)) =>
        resp'.status # 429
    ]_vars

\* C4, amended: the limit depends on the endpoint's category, the count does
\* not.  A registration or login request is allowed exactly when fewer than
\* 10 requests to the five limited endpoints together were accepted from the
\* address in the last 60 seconds, a read request when fewer than 30 were.
C4_CategoryLimitSharedCount ==
    [][Answered =>
        LET total == InWindow(request_times[resp'.ip], now)
            limit == IF resp'.endpoint \in
                         {"login_cliente", "cadastrar", "cadastrar_cliente"}
                     THEN MutatingMax ELSE ReadMax
        IN  resp'.status # 429 <=> total < limit
    ]_vars

\* a login or registration turned away although the address never had one
\* accepted: the ten timestamps in its way are those of read requests
C4_Witness ==
    /\ resp.status = 429
    /\ resp.endpoint \notin ReadEndpoints
    /\ last_mutating[resp.ip] = -1
    /\ Len(request_times[resp.ip]) >= MutatingMax

\* C5: the limiter's read, eviction and append are synchronized.  With two
\* threads serving requests of one address, no step takes a timestamp that is
\* still inside the window out of the address's list (a list replacement
\* never discards another thread's append), and a thread that appends its
\* timestamp leaves at most max_requests timestamps in the window.
C5_LimiterSynchronized ==
    [][\A ip \in Addrs :
        /\ InWindow(request_times'[ip], now) >= InWindow(request_times[ip], now)
        /\ \A t \in Threads :
               (threads[t].pc = "append" /\ threads'[t].pc = "handler"
                   /\ threads[t].ip = ip) =>
               InWindow(request_times'[ip], now) <= max_requests(threads[t].endpoint)
    ]_vars

(***************************************************************************)
(* Properties of registration and login                                    *)
(***************************************************************************)
\* the taxpayer number a CPF or CNPJ text denotes: its digits
TaxId(texto) == OnlyDigits(texto)

MsgDuplicado == {"Email ou CPF ja cadastrado.", "CPF/CNPJ ja cadastrado."}

\* a row of clientes already holds the email or the CPF of the form
ClientePresent(form) ==
    \E k \in DOMAIN clientes :
        \/ clientes[k].email = Strip(form.email)
        \/ TaxId(clientes[k].cpf) = TaxId(form.cpf)

\* C6: a client registration whose CPF or email is already in clientes is
\* answered 400 'Email ou CPF ja cadastrado.', inserts no row and leaves the
\* session as it was.  (Stated for forms every check accepts, the limiter
\* passed and the database up, where nothing else can answer first.)
C6_DuplicateClienteRefused ==
    [][\A ip \in Addrs, s \in Sessions, form \in ClienteValidForms, salt \in Salts :
        (/\ CadastrarCliente(ip, s, form, salt, TRUE)
         /\ resp'.status # 429
         /\ ClientePresent(form)) =>
            /\ resp'.status = 400
            /\ resp'.msg \in MsgDuplicado
            /\ Len(clientes') = Len(clientes)
            /\ session' = session
    ]_vars

\* C7: no two rows of fornecedores carry the same tax ID, no two rows of
\* clientes the same email or the same CPF, whatever registrations ran and
\* however two of them interleaved.
C7_UniqueKeys ==
    /\ \A i, j \in DOMAIN fornecedores :
           i # j => TaxId(fornecedores[i].cpfcnpj) # TaxId(fornecedores[j].cpfcnpj)
    /\ \A i, j \in DOMAIN clientes :
           i # j => /\ clientes[i].email # clientes[j].email
                    /\ TaxId(clientes[i].cpf) # TaxId(clientes[j].cpf)

\* the key a thread is about to insert is in its table, as stored
KeyStored(th) ==
    IF th.endpoint = "cadastrar_cliente"
    THEN LET r == ClienteParamsOf[variant][th.form][th.salt]
         IN  ClienteExists(clientes, r.email, r.cpf)
    ELSE FornecedorExists(fornecedores, FornecedorParamsOf[variant][th.form].cpfcnpj)

\* C8: a registration that fails because its key already exists is answered
\* 400 with the duplicate-key message, also when only the INSERT finds the
\* duplicate because another registration committed the key after this one's
\* SELECT; 500 is kept for storage and connection failures.
C8_DuplicateAnswered400 ==
    [][\A t \in Threads :
        (threads[t].pc = "insert" /\ threads'[t].pc = "idle"
            /\ KeyStored(threads[t])) =>
            /\ resp'.status = 400
            /\ resp'.msg \in MsgDuplicado
    ]_vars

\* the first iteration's checks are the validators the specification lists
ClienteFormAccepted(form) == ClienteChecksOf[1][form] = Passed
FornecedorFormAccepted(form) == FornecedorChecksOf[1][form] = Passed

\* C9: a registration inserts its row only if every required field is there
\* and every validator accepted the form; a request that fails any of the
\* checks is answered 400 and leaves both tables and the session unchanged;
\* a session is established only with the row inserted.
C9_ValidatedBeforeInsert ==
    [][\A ip \in Addrs, s \in Sessions, db \in BOOLEAN :
        /\ \A form \in ClienteForms, salt \in Salts :
            (CadastrarCliente(ip, s, form, salt, db) /\ resp'.status # 429) =>
                /\ ~ClienteFormAccepted(form) =>
                       /\ resp'.status = 400
                       /\ UNCHANGED <<clientes, fornecedores, session>>
                /\ clientes' # clientes => ClienteFormAccepted(form)
                /\ session' # session => Len(clientes') = Len(clientes) + 1
        /\ \A form \in FornecedorFewForms :
            (CadastrarFornecedor(ip, s, form, db) /\ resp'.status # 429) =>
                /\ ~FornecedorFormAccepted(form) =>
                       /\ resp'.status = 400
                       /\ UNCHANGED <<clientes, fornecedores, session>>
                /\ fornecedores' # fornecedores => FornecedorFormAccepted(form)
    ]_vars

\* the rows registered with the email a login form sends, and the password
\* each was registered with
RowsOf(form) ==
    {k \in DOMAIN clientes : clientes[k].email = LoginEmailOf[variant][form]}

RegisteredWith(k, senha) ==
    \E salt \in Salts : clientes[k].senha = generate_password_hash(salt, senha)

\* the session keys the specification names, taken from a row
LoggedInAs(d, row) ==
    /\ IsLoggedIn(d)
    /\ SessionGet(d, "cliente_id") = row.id
    /\ SessionGet(d, "cliente_nome") = row.nome

DigitValues(texto) ==
    LET d == SelectSeq(texto, LAMBDA c : c \in Digits)
    IN  [k \in 1..Len(d) |-> DigitVal(d[k])]

\* d[1]*w(1) + ... + d[n]*w(n)
RECURSIVE WeightedSum(_, _, _)
WeightedSum(d, w(_), n) ==
    IF n = 0 THEN 0 ELSE WeightedSum(d, w, n - 1) + d[n] * w(n)

\* check digit = 11 - sum mod 11, mapped to 0 when that is 10 or more
CheckDigitOf(sum) ==
    IF 11 - (sum % 11) >= 10 THEN 0 ELSE 11 - (sum % 11)

\* the reference CPF checksum: weights 10 down to 2 over the first 9 digits,
\* 11 down to 2 over the first 10
CpfReference(texto) ==
    LET d == DigitValues(texto)
    IN  /\ Len(d) = 11
        /\ \E k \in 2..11 : d[k] # d[1]
        /\ d[10] = CheckDigitOf(WeightedSum(d, LAMBDA k : 11 - k, 9))
        /\ d[11] = CheckDigitOf(WeightedSum(d, LAMBDA k : 12 - k, 10))

\* the text with the digit at position pos of its digits replaced by c
WithDigit(texto, pos, c) ==
    [OnlyDigits(texto) EXCEPT ![pos] = c]

\* C11: validar_cpf returns true exactly for the texts whose digits are 11,
\* not all identical, and end in the two check digits of the reference CPF
\* checksum; changing either check digit of a text it accepts to any other
\* digit gives a text it refuses.
C11_CpfChecksum ==
    call.fn = "validar_cpf" =>
        /\ call.ret = CpfReference(call.arg)
        /\ call.ret =>
               \A pos \in {10, 11}, c \in Digits :
                   c # OnlyDigits(call.arg)[pos] =>
                       ~validar_cpf(WithDigit(call.arg, pos, c))

\* validar_cpf has accepted a CPF written with its punctuation whose first
\* check digit is the 0 that stands for a computed 10
C11_Witness ==
    /\ call.fn = "validar_cpf"
    /\ call.ret
    /\ "." \in {call.arg[k] : k \in DOMAIN call.arg}
    /\ OnlyDigits(call.arg)[10] = "0"

\* the weight of the reference CNPJ checksum for 1-based position k when the
\* digits before position n + 1 are weighted: 2 at position n, one more per
\* step to the left, 2 again after 9
CnpjWeight(n, k) == 2 + ((n - k) % 8)

CnpjReference(texto) ==
    LET d == DigitValues(texto)
    IN  /\ Len(d) = 14
        /\ \E k \in 2..14 : d[k] # d[1]
        /\ d[13] = CheckDigitOf(WeightedSum(d, LAMBDA k : CnpjWeight(12, k), 12))
        /\ d[14] = CheckDigitOf(WeightedSum(d, LAMBDA k : CnpjWeight(13, k), 13))

\* C12: validar_cnpj returns true exactly for the texts whose digits are 14,
\* not all identical, and end in the two check digits of the reference CNPJ
\* checksum (weights from 2, cycling 2..9, right to left from the position
\* before the check digit).
C12_CnpjChecksum ==
    call.fn = "validar_cnpj" => call.ret = CnpjReference(call.arg)

(***************************************************************************)
(* Properties of the stored rows                                           *)
(***************************************************************************)
\* C13: every row of clientes has an age from 18 to 120 and a gender among
\* M, F and O; every row of fornecedores has no age or an age from 18 to 120.
C13_RowRanges ==
    /\ \A k \in 1..Len(clientes) :
           /\ clientes[k].idade # {}
           /\ IdadeCheckOk(clientes[k].idade)
           /\ clientes[k].genero \in GeneroCheck
    /\ \A k \in 1..Len(fornecedores) : IdadeCheckOk(fornecedores[k].idade)

(***************************************************************************)
(* Properties of the listings                                              *)
(***************************************************************************)
\* the field of a listed object is absent or differs from what the table
\* stores for the row of the same id
Withheld(item, table, field) ==
    field \in DOMAIN item =>
        \A k \in 1..Len(table) :
            table[k].id = item.id => item[field] # table[k][field]

\* C14: a listing never discloses a sensitive field: an object of
\* /clientes_json has no senha, and the cpf of an object of /clientes_json and
\* the cpfcnpj of an object of /fornecedores_json are absent or are not the
\* value stored for that row.
C14_ListingsWithhold ==
    /\ (resp.endpoint = "clientes_json" /\ resp.status = 200) =>
           \A k \in 1..Len(resp.body) :
               /\ "senha" \notin DOMAIN resp.body[k]
               /\ Withheld(resp.body[k], clientes, "cpf")
    /\ (resp.endpoint = "fornecedores_json" /\ resp.status = 200) =>
           \A k \in 1..Len(resp.body) :
               Withheld(resp.body[k], fornecedores, "cpfcnpj")

(***************************************************************************)
(* Properties of the limiter's key                                         *)
(***************************************************************************)
\* the forwarded address when the header is present, else the peer address
ForwardedKey(peer, forwarded) == IF forwarded = Absent THEN peer ELSE forwarded

\* C15: the limiter counts a request under the value of its forwarded header
\* when it has one and under its peer address otherwise: the list of that
\* key is the one evicted and appended to, and no other list changes.
C15_ForwardedKey ==
    [][\A peer \in ProxyPeers, forwarded \in ForwardedFor, s \in Sessions,
          form \in ProxyForms, salt \in Salts :
           ProxiedRequest("cadastrar_cliente", peer, forwarded, s, form, salt,
                          TRUE) =>
               LET key == ForwardedKey(peer, forwarded)
                   rl == rate_limit(request_times[key], now,
                                    max_requests("cadastrar_cliente"),
                                    window("cadastrar_cliente"))
               IN  /\ request_times' = [request_times EXCEPT ![key] = rl.times]
                   /\ resp'.status = 429 <=> rl.rejected]_vars

(***************************************************************************)
(* Properties of the timestamp lists                                       *)
(***************************************************************************)
\* each timestamp is at most the one after it
NonDecreasing(times) ==
    \A i \in 1..(Len(times) - 1) : times[i] <= times[i + 1]

\* C16: right after the limiter has checked a request of an address, accepted
\* or not, every timestamp t of the address's list satisfies now - t < window;
\* the list is always in non-decreasing order and never longer than the
\* largest max_requests applied to the address.
C16_ListWithinWindow ==
    [][\A ip \in Addrs :
        /\ (Answered /\ resp'.ip = ip) =>
               \A k \in DOMAIN request_times'[ip] :
                   now' - request_times'[ip][k] < window(resp'.endpoint)
        /\ NonDecreasing(request_times'[ip])
        /\ Len(request_times'[ip]) <= ReadMax
    ]_vars

\* a listing turned away at second 60 by a full list of thirty timestamps,
\* some taken at second 30 and some at second 60, those of second 0 evicted
C16_Witness ==
    /\ resp.status = 429
    /\ resp.endpoint \in ReadEndpoints
    /\ now = 2 * TickStep
    /\ Len(request_times[resp.ip]) = ReadMax
    /\ \E i, j \in DOMAIN request_times[resp.ip] :
           request_times[resp.ip][i] < request_times[resp.ip][j]
    /\ last_mutating[resp.ip] = 0

\* how many of the timestamps fall in the window of WindowSecs seconds that
\* starts at T
InSpan(times, T) ==
    Cardinality({i \in DOMAIN times : T <= times[i] /\ times[i] < T + WindowSecs})

\* C17: the endpoints share one list per address.  A request accepted by any
\* endpoint is appended to that list; a login or registration is accepted
\* only when fewer than 10 requests to all endpoints together were accepted
\* from the address in the last 60 seconds; and no window of 60 seconds
\* holds more than 30 accepted requests of an address.
C17_OneListPerAddress ==
    [][\A ip \in Addrs :
        /\ (Answered /\ resp'.ip = ip /\ resp'.status # 429) =>
               /\ request_times'[ip] =
                      Append(Remaining(request_times[ip], now), now)
               /\ resp'.endpoint \notin ReadEndpoints =>
                      InWindow(request_times[ip], now) < MutatingMax
        /\ \A T \in {request_times'[ip][k] : k \in DOMAIN request_times'[ip]} :
               InSpan(request_times'[ip], T) <= ReadMax
    ]_vars

\* a listing accepted as the thirtieth request of its address within one
\* minute, a login or registration being among the thirty
C17_Witness ==
    /\ resp.status = 200
    /\ resp.endpoint \in ReadEndpoints
    /\ Len(request_times[resp.ip]) = ReadMax
    /\ last_mutating[resp.ip] = now
    /\ now = TickStep

(***************************************************************************)
(* Properties of the requests turned away                                  *)
(***************************************************************************)
\* C18: a request answered 429 leaves the supplier table, the client table
\* and the caller's session as they were, and a request of an address,
\* accepted or not, changes the timestamp list of no other address.
C18_RejectionFrame ==
    [][Answered =>
        /\ resp'.status = 429 =>
               /\ fornecedores' = fornecedores
               /\ clientes' = clientes
               /\ session'[resp'.sess] = session[resp'.sess]
        /\ \A ip \in AllAddrs \ {resp'.ip} :
               request_times'[ip] = request_times[ip]
    ]_vars

\* a registration turned away while a client and a supplier are stored, the
\* client is logged in and another address has timestamps of its own
C18_Witness ==
    /\ resp.status = 429
    /\ resp.endpoint = "cadastrar_cliente"
    /\ Len(clientes) > 0
    /\ Len(fornecedores) > 0
    /\ IsLoggedIn(session[resp.sess])
    /\ \E ip \in AllAddrs \ {resp.ip} : Len(request_times[ip]) > 0

(***************************************************************************)
(* Properties of the session                                               *)
(***************************************************************************)
\* the session is logged in with the cliente_id, cliente_nome and
\* cliente_email of the row
SessionIs(d, row) ==
    /\ LoggedInAs(d, row)
    /\ SessionGet(d, "cliente_email") = row.email

FailureStatus == {400, 401, 429, 500}

\* C19: the session is logged in exactly from a successful login or
\* registration until the next logout, and check_session reports it.  A
\* login or registration answered 200 leaves the session logged in with the
\* cliente_id, cliente_nome and cliente_email of the row it found or stored;
\* one answered 400, 401, 429 or 500 leaves the session exactly as it was; a
\* logout leaves it logged out; check_session answers logged_in true exactly
\* when the session is logged in and changes nothing.
C19_SessionTracksLogin ==
    [][\A ip \in Addrs, s \in Sessions, db \in BOOLEAN :
        /\ \A form \in LoginForms :
               LoginCliente(ip, s, form, db) =>
                   IF resp'.status = 200
                   THEN \E k \in RowsOf(form) : SessionIs(session'[s], clientes[k])
                   ELSE resp'.status \in FailureStatus /\ session' = session
        /\ \A form \in LoginClienteForms, salt \in Salts :
               CadastrarCliente(ip, s, form, salt, db) =>
                   IF resp'.status = 200
                   THEN /\ Len(clientes') = Len(clientes) + 1
                        /\ SessionIs(session'[s], clientes'[Len(clientes')])
                   ELSE resp'.status \in FailureStatus /\ session' = session
        /\ Logout(ip, s) => ~IsLoggedIn(session'[s])
        /\ CheckSession(ip, s) =>
               /\ resp'.body.logged_in = IsLoggedIn(session[s])
               /\ session' = session
    ]_vars

====
